---- MODULE Spec2Model ----
(***************************************************************************)
(* AiChatSync: the chat turn of POST /api/chat (server/routes.ts), the     *)
(* tool service MCPService (server/mcp-client.ts) and the record store     *)
(* DatabaseStorage (server/storage.ts).                                    *)
(*                                                                         *)
(* Three specifications share the variables:                               *)
(*   Spec            chat turns, one handler step per action               *)
(*   SpecPrompts     the system-prompt handlers, each call atomic          *)
(*   SpecSetDefault  two set-default calls, one storage statement per step *)
(*                                                                         *)
(* Strings of the source that are not ASCII are written in ASCII:          *)
(* "Beijing" for the key of cityInfo, "China" and "unknown" for the        *)
(* country values, "ERR: " for the prefix of the catch of processWithTools *)
(* and "NO_CONTENT" for its text of an empty completion.                   *)
(***************************************************************************)
EXTENDS Integers, Sequences, FiniteSets, TLC

VARIABLES
    systemPrompts,      \* rows of table system_prompts
    nextPromptId,       \* its serial
    conversations,      \* rows of table conversations
    nextConversationId, \* its serial
    mcpTools,           \* rows of table mcp_tools
    messages,           \* rows of table messages
    nextMessageId,      \* its serial
    mcp,                \* the MCPService singleton: tools, isConnected, serverProcesses
    turn,               \* the POST /api/chat request being handled
    lastOp,             \* the last system-prompt call: its arguments and the table before it
    ops                 \* set-default calls in flight: position and arguments

vars == <<systemPrompts, nextPromptId, conversations, nextConversationId, mcpTools,
          messages, nextMessageId, mcp, turn, lastOp, ops>>

storageVars == <<conversations, nextConversationId, mcpTools, messages, nextMessageId>>

\* ---------------------------------------------------------------- bounds

MaxPrompts == 3

\* ------------------------------------------------------------ constants

MOCK_USER_ID == 1

Users == {1, 2}

\* ------------------------------------------------- storage: system prompts

\* a set-default that forgets to clear the previous default
UnsetDefaultsNone(table, userId) == table

\* UPDATE system_prompts SET isDefault = false WHERE userId = :userId AND isDefault
UnsetDefaults(table, userId) ==
    { IF p.userId = userId /\ p.isDefault = TRUE THEN [p EXCEPT !.isDefault = FALSE] ELSE p
      : p \in table }

\* UPDATE system_prompts SET isDefault = true WHERE id = :id
MarkDefault(table, id) ==
    { IF p.id = id THEN [p EXCEPT !.isDefault = TRUE] ELSE p : p \in table }

\* prompt.isDefault && prompt.userId, of an object that may lack either key
WantsDefaultFor(prompt) ==
    /\ "isDefault" \in DOMAIN prompt
    /\ prompt.isDefault = TRUE
    /\ "userId" \in DOMAIN prompt
    /\ prompt.userId # 0

\* UPDATE system_prompts SET <prompt> WHERE id = :id
SetFields(p, prompt) ==
    [f \in DOMAIN p |-> IF f \in DOMAIN prompt THEN prompt[f] ELSE p[f]]

createSystemPrompt(table, id, prompt) ==
    LET cleared == IF WantsDefaultFor(prompt)
                   THEN UnsetDefaults(table, prompt.userId)
                   ELSE table
    IN  cleared \cup {[id |-> id, userId |-> prompt.userId, content |-> prompt.content,
                       isDefault |-> prompt.isDefault]}

updateSystemPrompt(table, id, prompt) ==
    LET defaultPrompts ==
            IF WantsDefaultFor(prompt)
            THEN {p \in table : p.userId = prompt.userId /\ p.isDefault = TRUE}
            ELSE {}
        cleared == { IF p \in defaultPrompts /\ p.id # id
                     THEN [p EXCEPT !.isDefault = FALSE] ELSE p : p \in table }
    IN  { IF p.id = id THEN SetFields(p, prompt) ELSE p : p \in cleared }

deleteSystemPrompt(table, id) == {p \in table : p.id # id}

setDefaultSystemPrompt(table, id, userId) ==
    MarkDefault(UnsetDefaults(table, userId), id)

getSystemPrompt(table, id) == {p \in table : p.id = id}

DefaultsOf(table, u) == {p \in table : p.userId = u /\ p.isDefault = TRUE}

\* --------------------------------------- the system-prompt handlers, atomic

NoOp == [op |-> "none", id |-> 0, userId |-> 0, before |-> {}]

\* what PATCH /api/system-prompts/:id copies from the request body
PatchUpdates(body) ==
    [f \in {g \in {"content", "isDefault"} : g \in DOMAIN body /\
                (g = "content" => body[g] # "")} |-> body[f]]

PatchBodies ==
    { [f \in d |-> IF f = "isDefault" THEN b ELSE "P1"] :
        d \in SUBSET {"content", "isDefault"}, b \in BOOLEAN }

PostSystemPrompt(userId, isDefault) ==
    /\ nextPromptId <= MaxPrompts
    /\ systemPrompts' = createSystemPrompt(systemPrompts, nextPromptId,
            [content |-> "P1", userId |-> userId, isDefault |-> isDefault])
    /\ nextPromptId' = nextPromptId + 1
    /\ lastOp' = NoOp
    /\ UNCHANGED <<storageVars, mcp, turn, ops>>

PatchSystemPrompt(id, body) ==
    /\ systemPrompts' = updateSystemPrompt(systemPrompts, id, PatchUpdates(body))
    /\ lastOp' = NoOp
    /\ UNCHANGED <<nextPromptId, storageVars, mcp, turn, ops>>

DeleteSystemPrompt(id) ==
    /\ systemPrompts' = deleteSystemPrompt(systemPrompts, id)
    /\ lastOp' = NoOp
    /\ UNCHANGED <<nextPromptId, storageVars, mcp, turn, ops>>

PostSetDefault(id, userId) ==
    /\ systemPrompts' = setDefaultSystemPrompt(systemPrompts, id, userId)
    /\ lastOp' = [op |-> "setDefault", id |-> id, userId |-> userId,
                  before |-> systemPrompts]
    /\ UNCHANGED <<nextPromptId, storageVars, mcp, turn, ops>>

NoTurns == <<>>

\* the MCPService singleton as constructed; tavilyDisabled is !process.env.TAVILY_API_KEY
MCPNew == [tools |-> <<>>, isConnected |-> FALSE, serverProcesses |-> {},
           tavilyDisabled |-> TRUE]

InitPrompts ==
    /\ systemPrompts = {}
    /\ nextPromptId = 1
    /\ conversations = {}
    /\ nextConversationId = 1
    /\ mcpTools = {}
    /\ messages = {}
    /\ nextMessageId = 1
    /\ mcp = MCPNew
    /\ turn = NoTurns
    /\ lastOp = NoOp
    /\ ops = <<>>

NextPrompts ==
    \/ \E u \in Users, d \in BOOLEAN : PostSystemPrompt(u, d)
    \/ \E id \in 1..MaxPrompts, body \in PatchBodies : PatchSystemPrompt(id, body)
    \/ \E id \in 1..MaxPrompts : DeleteSystemPrompt(id)
    \/ \E id \in 1..MaxPrompts, u \in Users : PostSetDefault(id, u)

SpecPrompts == InitPrompts /\ [][NextPrompts]_vars

\* C5: each user has at most one system prompt with isDefault = true, in every
\* state reached by creating, patching, deleting and setting defaults.
C5_AtMostOneDefault ==
    \A u \in Users : Cardinality(DefaultsOf(systemPrompts, u)) <= 1

\* C6: when A is the default of a user and setDefaultSystemPrompt(B, user) is
\* called for another prompt B of that user, then afterwards A is not default,
\* B is default and the user has exactly one default prompt.
C6_Case(a, b) ==
    /\ lastOp.op = "setDefault"
    /\ b.id = lastOp.id
    /\ b.userId = lastOp.userId
    /\ a.userId = lastOp.userId
    /\ a.id # b.id
    /\ a.isDefault = TRUE

C6_SetDefaultMovesDefault ==
    \A a \in lastOp.before, b \in lastOp.before :
        C6_Case(a, b) =>
            /\ \A p \in systemPrompts : p.id = a.id => p.isDefault = FALSE
            /\ \A p \in systemPrompts : p.id = b.id => p.isDefault = TRUE
            /\ \E p \in systemPrompts : p.id = b.id
            /\ Cardinality(DefaultsOf(systemPrompts, lastOp.userId)) = 1

C6_Witness ==
    \E a \in lastOp.before, b \in lastOp.before :
        /\ C6_Case(a, b)
        /\ b.isDefault = FALSE

\* ------------------------- two set-default calls, one statement per step

\* the tables the creation handler leaves with PromptIds created
PromptIds == 1..MaxPrompts

AtMostOneEach(owner, dflt) ==
    \A i \in dflt, j \in dflt : i # j => owner[i] # owner[j]

CreatedTables ==
    { { [id |-> i, userId |-> c[1][i], content |-> "P1", isDefault |-> (i \in c[2])]
        : i \in PromptIds }
      : c \in { x \in [PromptIds -> Users] \X SUBSET PromptIds :
                  AtMostOneEach(x[1], x[2]) } }

\* storage.ts 231-237: the first statement of setDefaultSystemPrompt
SetDefaultUnset(o) ==
    /\ ops[o].pc = "unset"
    /\ systemPrompts' = UnsetDefaults(systemPrompts, ops[o].userId)
    /\ ops' = [ops EXCEPT ![o].pc = "set"]
    /\ UNCHANGED <<nextPromptId, storageVars, mcp, turn, lastOp>>

\* storage.ts 240-245: its second statement
SetDefaultSet(o) ==
    /\ ops[o].pc = "set"
    /\ systemPrompts' = MarkDefault(systemPrompts, ops[o].id)
    /\ ops' = [ops EXCEPT ![o].pc = "done"]
    /\ UNCHANGED <<nextPromptId, storageVars, mcp, turn, lastOp>>

InitSetDefault ==
    /\ systemPrompts \in CreatedTables
    /\ nextPromptId = MaxPrompts + 1
    /\ conversations = {}
    /\ nextConversationId = 1
    /\ mcpTools = {}
    /\ messages = {}
    /\ nextMessageId = 1
    /\ mcp = MCPNew
    /\ turn = NoTurns
    /\ lastOp = NoOp
    /\ \E a \in systemPrompts, b \in systemPrompts :
          /\ a.id # b.id
          /\ a.userId = b.userId
          /\ ops = << [pc |-> "unset", id |-> a.id, userId |-> a.userId],
                      [pc |-> "unset", id |-> b.id, userId |-> b.userId] >>

NextSetDefault ==
    \/ \E o \in DOMAIN ops : SetDefaultUnset(o)
    \/ \E o \in DOMAIN ops : SetDefaultSet(o)

SpecSetDefault == InitSetDefault /\ [][NextSetDefault]_vars

BothSetDefaultsDone == \A o \in DOMAIN ops : ops[o].pc = "done"

\* C7: once two concurrent set-default calls for one user and two different
\* prompts have both completed, however their statements interleave, the user
\* has exactly one default prompt.
C7_ConcurrentSetDefaultOneDefault ==
    (DOMAIN ops # {} /\ BothSetDefaultsDone) =>
        Cardinality(DefaultsOf(systemPrompts, ops[1].userId)) = 1

\* ------------------------------------------------------ storage: the rest

\* SQL NULL and JavaScript null / undefined, of a JSON column or an object
Null == [null |-> TRUE]

\* rows by descending id
RECURSIVE SortByIdDescending(_)
SortByIdDescending(rows) ==
    IF rows = {} THEN <<>>
    ELSE LET last == CHOOSE m \in rows : \A n \in rows : m.id >= n.id
         IN  <<last>> \o SortByIdDescending(rows \ {last})

RECURSIVE SortById(_)
SortById(rows) ==
    IF rows = {} THEN <<>>
    ELSE LET first == CHOOSE m \in rows : \A n \in rows : m.id <= n.id
         IN  <<first>> \o SortById(rows \ {first})

\* SELECT ... WHERE conversationId = :id ORDER BY id
getConversationMessages(rows, conversationId) ==
    SortById({m \in rows : m.conversationId = conversationId})

\* the row, or no row
getConversation(rows, id) == {c \in rows : c.id = id}

getMcpTool(rows, id) == {tool \in rows : tool.id = id}

\* the default prompt of the user, else the newest prompt of the user, else none
getDefaultSystemPrompt(table, userId) ==
    IF DefaultsOf(table, userId) # {}
    THEN DefaultsOf(table, userId)
    ELSE {p \in table : p.userId = userId /\ \A q \in table : q.userId = userId => q.id <= p.id}

\* INSERT INTO messages: the foreign key conversation_id must name a conversation
CanInsertMessage(convs, conversationId) == getConversation(convs, conversationId) # {}

\* ------------------------------------------------------------- MCPService

BuiltInTools == <<"get_weather", "get_city_info">>

\* a service whose default registry is empty
initializeDefaultToolsNone(svc) == [svc EXCEPT !.tools = <<>>, !.isConnected = TRUE]

initializeDefaultTools(svc) == [svc EXCEPT !.tools = BuiltInTools, !.isConnected = TRUE]

addTavilySearchTool(svc) == [svc EXCEPT !.tools = Append(@, "tavily_search")]

\* spawned: whether spawn() of the built-in server returned a process
startMcpServerProcess(svc, serverName, spawned) ==
    IF spawned THEN [svc EXCEPT !.serverProcesses = @ \cup {serverName}] ELSE svc

\* mcp-client.ts 62-82: initialize() up to its await of startMcpServerProcess
initializeUntilAwait(svc, spawned) ==
    startMcpServerProcess(initializeDefaultTools(svc), "built-in-mcp", spawned)

\* mcp-client.ts 72-92: the rest of the loop, after the await
initializeAfterAwait(svc) ==
    [(IF svc.tavilyDisabled THEN svc ELSE addTavilySearchTool(svc))
        EXCEPT !.isConnected = TRUE]

initialize(svc, spawned) == initializeAfterAwait(initializeUntilAwait(svc, spawned))

getAvailableTools(svc) == svc.tools

shutdown(svc) == [svc EXCEPT !.serverProcesses = {}, !.isConnected = FALSE]

\* ------------------------------------------------------------ tool handlers

Threw(e) == [threw |-> TRUE, error |-> e]

Returned(v) == [threw |-> FALSE, value |-> v]

\* args.k || fallback
ArgOr(args, k, fallback) ==
    IF k \in DOMAIN args /\ args[k] # "" THEN args[k] ELSE fallback

\* the random draws of executeWeatherTool the model follows
WeatherDraws ==
    { [condition |-> "sunny", temperature |-> 5, humidity |-> 40, windSpeed |-> 1],
      [condition |-> "fog", temperature |-> 39, humidity |-> 99, windSpeed |-> 30] }

executeWeatherTool(args, draw) ==
    IF args = Null THEN Threw("TypeError: cannot read properties of null")
    ELSE Returned([location |-> ArgOr(args, "location", "Beijing"),
                   date |-> ArgOr(args, "date", "today"),
                   weather |-> draw])

cityInfo ==
    [c \in {"Beijing", "Shanghai", "Guangzhou"} |->
        [country |-> "China",
         population |-> CASE c = "Beijing" -> "21.54 million"
                          [] c = "Shanghai" -> "26.32 million"
                          [] OTHER -> "15.31 million",
         timezone |-> "UTC+8"]]

unknownCity == [country |-> "unknown", population |-> "unavailable", timezone |-> "unknown"]

\* members every object literal inherits: cityInfo[name] is a function or an
\* object with no enumerable property of its own
ObjectPrototypeKeys == {"constructor", "toString"}

\* cityInfo[city] || {...unknown}, spread after city
executeCityInfoTool(args) ==
    IF args = Null THEN Threw("TypeError: cannot read properties of null")
    ELSE LET city == ArgOr(args, "city", "Beijing")
             info == IF city \in DOMAIN cityInfo THEN cityInfo[city]
                     ELSE IF city \in ObjectPrototypeKeys THEN <<>>
                     ELSE unknownCity
         IN  Returned([city |-> city] @@ info)

\* fetched: whether the search API answered with a success status
executeTavilySearchTool(args, fetched) ==
    IF args = Null THEN Threw("TypeError: cannot read properties of null")
    ELSE IF fetched THEN Returned([results |-> "tavily data"])
    ELSE Returned([error |-> "Tavily search failed"])

unknownToolResult(toolName) ==
    [message |-> "tool unavailable: use tavily_search, get_weather or get_city_info"]

\* a dispatch that raises on a name it does not know
executeToolStrict(toolName, toolArgs, draw, fetched) ==
    IF toolName = "get_weather" THEN executeWeatherTool(toolArgs, draw)
    ELSE IF toolName = "get_city_info" THEN executeCityInfoTool(toolArgs)
    ELSE IF toolName = "tavily_search" THEN executeTavilySearchTool(toolArgs, fetched)
    ELSE Threw("Error: unknown tool")

\* mcp-client.ts 291-305
executeTool(toolName, toolArgs, draw, fetched) ==
    IF toolName = "get_weather" THEN executeWeatherTool(toolArgs, draw)
    ELSE IF toolName = "get_city_info" THEN executeCityInfoTool(toolArgs)
    ELSE IF toolName = "tavily_search" THEN executeTavilySearchTool(toolArgs, fetched)
    ELSE Returned(unknownToolResult(toolName))

\* JSON.parse of the argument texts the provider of the model sends
ArgTexts == {"{}", "{city:Beijing}", "{query:q}", "null", "{"}

JSONparse(text) ==
    CASE text = "{}" -> Returned(<<>>)
      [] text = "{city:Beijing}" -> Returned([city |-> "Beijing"])
      [] text = "{query:q}" -> Returned([query |-> "q"])
      [] text = "null" -> Returned(Null)
      [] OTHER -> Threw("SyntaxError: unexpected end of JSON input")

\* ------------------------------------------------ POST /api/chat: the data

\* the turns of the model: one request
TurnIds == {1}

ChatRequests ==
    [message : {"", "hello"},
     conversationId : {0, 1, 2, 9},        \* 0: absent, 9: no such conversation
     systemPromptId : {0, 2, 9},           \* 0: absent, 9: no such prompt
     useTool : {"absent", "false", "true"}]

ToolCall(name, arguments) ==
    [id |-> "call", type |-> "function", name |-> name, arguments |-> arguments]

\* the first requested tool call of a response, and what may follow it
FirstToolCalls ==
    { ToolCall("get_weather", "{}"), ToolCall("get_city_info", "{city:Beijing}"),
      ToolCall("tavily_search", "{query:q}"), ToolCall("other_tool", "{}"),
      ToolCall("get_city_info", "null"), ToolCall("get_weather", "{") }

MoreToolCalls == { <<>>, <<ToolCall("get_city_info", "{city:Beijing}")>> }

\* a completion text that carries the marker of routes.ts 515 for tool 1
UseToolMarker == "[USE_TOOL:1:{}]"

\* what the provider answers to a request with tools: a message, or a failure
FirstPassOutcomes ==
    { [ok |-> FALSE] }
    \cup { [ok |-> TRUE, content |-> c, tool_calls |-> <<>>] : c \in {"", "A1", UseToolMarker} }
    \cup { [ok |-> TRUE, content |-> "A1", tool_calls |-> <<first>> \o more] :
             first \in FirstToolCalls, more \in MoreToolCalls }

SecondPassOutcomes ==
    { [ok |-> FALSE] } \cup { [ok |-> TRUE, content |-> c] : c \in {"", "A2"} }

CompletionOutcomes ==
    { [ok |-> FALSE] } \cup { [ok |-> TRUE, content |-> c] : c \in {"", "D", UseToolMarker} }

\* content || fallback
TextOr(content, fallback) == IF content = "" THEN fallback ELSE content

JSONstringify(value) == ToString(value)

\* tool.name.toLowerCase().includes(name.toLowerCase()), on the names of the model
Includes(haystack, needle) ==
    \/ haystack = needle
    \/ <<haystack, needle>> \in { <<"get_weather_v2", "get_weather">> }

NewTurn(req) ==
    [pc |-> "idle", req |-> req, conversationIdToUse |-> req.conversationId,
     conversationMessages |-> <<>>, systemPromptContent |-> "",
     availableTools |-> <<>>, toolsInfo |-> "", formattedMessages |-> <<>>,
     finalResponse |-> "", toolCalls |-> <<>>, toolId |-> 0,
     assistantMessage |-> Null, pending |-> <<>>, pwtToolCalls |-> <<>>,
     response |-> Null,
     \* what the turn did, for the properties
     providerCalls |-> <<>>, replies |-> <<>>, executed |-> <<>>, raised |-> <<>>,
     initialized |-> <<>>, appended |-> <<>>, created |-> {}, storageFailed |-> FALSE]

\* an error handler that ends the request without sending a response
handleErrorNoResponse(tr, error) == [tr EXCEPT !.pc = "done"]

\* an error handler that answers every error with 500
handleErrorAlways500(tr, error) ==
    [tr EXCEPT !.pc = "done",
               !.response = [status |-> 500, message |-> "Internal server error"]]

\* handleError: 400 for a ZodError, 500 otherwise
handleError(tr, error) ==
    [tr EXCEPT !.pc = "done",
               !.response = IF error = "ZodError"
                            THEN [status |-> 400, message |-> "Message cannot be empty"]
                            ELSE [status |-> 500, message |-> "Internal server error"]]

\* a storage call of the handler threw
StorageThrew(tr) == handleError([tr EXCEPT !.storageFailed = TRUE], "Error")

\* routes.ts 52-72
formatMessagesForOpenAI(msgs, systemPrompt) ==
    (IF systemPrompt # "" THEN <<[role |-> "system", content |-> systemPrompt]>> ELSE <<>>)
    \o [i \in 1..Len(msgs) |-> [role |-> msgs[i].role, content |-> msgs[i].content]]

\* routes.ts 510-520: the text block naming each tool and its [USE_TOOL:id:...] syntax
RECURSIVE ToolsInfo(_)
ToolsInfo(tools) ==
    IF tools = <<>> THEN ""
    ELSE "Tool " \o Head(tools).name \o " [USE_TOOL:" \o ToString(Head(tools).id)
         \o ":parameters] " \o ToolsInfo(Tail(tools))

\* the tools of enabledTools that exist, enabled or not
RECURSIVE EnabledToolsOfUnfiltered(_, _)
EnabledToolsOfUnfiltered(rows, toolIds) ==
    IF toolIds = <<>> THEN <<>>
    ELSE LET found == getMcpTool(rows, Head(toolIds))
         IN  (IF found = {} THEN <<>> ELSE <<CHOOSE tool \in found : TRUE>>)
             \o EnabledToolsOfUnfiltered(rows, Tail(toolIds))

\* routes.ts 496-506: the tools of enabledTools that exist and are enabled
RECURSIVE EnabledToolsOf(_, _)
EnabledToolsOf(rows, toolIds) ==
    IF toolIds = <<>> THEN <<>>
    ELSE LET found == {tool \in getMcpTool(rows, Head(toolIds)) : tool.isEnabled = TRUE}
         IN  (IF found = {} THEN <<>> ELSE <<CHOOSE tool \in found : TRUE>>)
             \o EnabledToolsOf(rows, Tail(toolIds))

\* routes.ts 526-530
WithToolsInfo(systemPromptContent, toolsInfo) ==
    IF toolsInfo # "" /\ systemPromptContent # ""
    THEN systemPromptContent \o "\n\n" \o toolsInfo
    ELSE IF toolsInfo # "" THEN toolsInfo
    ELSE systemPromptContent

\* a handler that takes the tool path whatever the request asked
UsesToolsAlways(useTool, availableTools) == TRUE

\* routes.ts 539: useTool && availableTools.length > 0
UsesTools(useTool, availableTools) == useTool = "true" /\ availableTools # <<>>

\* routes.ts 462-467
UserMessage(id, tr) ==
    [id |-> id, role |-> "user", content |-> tr.req.message, userId |-> MOCK_USER_ID,
     conversationId |-> tr.conversationIdToUse, toolCall |-> Null, toolResult |-> Null]

\* routes.ts 572-576
ToolCallPayload(tr) ==
    [toolId |-> tr.toolId, name |-> tr.toolCalls[1].name,
     parameters |-> tr.toolCalls[1].arguments]

\* routes.ts 567-577
AssistantToolCallMessage(id, tr) ==
    [id |-> id, role |-> "assistant", content |-> tr.finalResponse,
     userId |-> MOCK_USER_ID, conversationId |-> tr.conversationIdToUse,
     toolCall |-> ToolCallPayload(tr), toolResult |-> Null]

\* a tool message that leaves the result out
ToolResultMessageNoResult(id, tr) ==
    [id |-> id, role |-> "tool",
     content |-> "tool " \o tr.toolCalls[1].name \o " returned: "
                     \o JSONstringify(tr.toolCalls[1].result),
     userId |-> MOCK_USER_ID, conversationId |-> tr.conversationIdToUse,
     toolCall |-> ToolCallPayload(tr), toolResult |-> Null]

\* routes.ts 580-591
ToolResultMessage(id, tr) ==
    [id |-> id, role |-> "tool",
     content |-> "tool " \o tr.toolCalls[1].name \o " returned: "
                     \o JSONstringify(tr.toolCalls[1].result),
     userId |-> MOCK_USER_ID, conversationId |-> tr.conversationIdToUse,
     toolCall |-> ToolCallPayload(tr), toolResult |-> tr.toolCalls[1].result]

\* an assistant message that drops the text of the completion
AssistantMessageNoText(id, tr) ==
    [id |-> id, role |-> "assistant", content |-> "",
     userId |-> MOCK_USER_ID, conversationId |-> tr.conversationIdToUse,
     toolCall |-> Null, toolResult |-> Null]

\* routes.ts 616-621
AssistantMessage(id, tr) ==
    [id |-> id, role |-> "assistant", content |-> tr.finalResponse,
     userId |-> MOCK_USER_ID, conversationId |-> tr.conversationIdToUse,
     toolCall |-> Null, toolResult |-> Null]

\* ---------------------------------------------- MCPService.processWithTools

SystemInstruction == "You are a helpful assistant that can use the provided tools."

\* mcp-client.ts 351-357: the catch around the whole of processWithTools
PwtCatch(error) == [content |-> "ERR: " \o error, toolCalls |-> <<>>]

\* routes.ts 547-552: the handler takes the result of processWithTools
ProcessWithToolsReturned(tr, result) ==
    [tr EXCEPT !.finalResponse = result.content,
               !.toolCalls = result.toolCalls,
               !.pc = IF result.toolCalls # <<>> THEN "findToolId" ELSE "storeAssistant"]

\* mcp-client.ts 315-319
ToolResultChatMessage(toolCall, result) ==
    [role |-> "tool", tool_call_id |-> toolCall.id, content |-> JSONstringify(result)]

ProviderCall(api, msgs, tools, ok) ==
    [api |-> api, messages |-> msgs, tools |-> tools, ok |-> ok]

\* mcp-client.ts 242-275 and 346-350: initialize if needed, first request to the provider
FirstPass(t, outcome, spawned) ==
    LET tr  == turn[t]
        svc == IF mcp.isConnected THEN mcp ELSE initialize(mcp, spawned)
        called == [tr EXCEPT !.providerCalls = Append(@,
                     ProviderCall("tools",
                         << [role |-> "system", content |-> SystemInstruction],
                            [role |-> "user", content |-> tr.req.message] >>,
                         svc.tools, outcome.ok)),
                             !.replies = Append(@, outcome),
                             !.initialized = IF mcp.isConnected THEN @
                                             ELSE Append(@, spawned)]
    IN  /\ tr.pc = "firstPass"
        /\ mcp' = svc
        /\ turn' = [turn EXCEPT ![t] =
              IF ~outcome.ok
              THEN ProcessWithToolsReturned(called, PwtCatch("provider request failed"))
              ELSE IF outcome.tool_calls # <<>>
              THEN [called EXCEPT !.pc = "toolCall",
                                  !.assistantMessage =
                                      [role |-> "assistant", content |-> outcome.content,
                                       tool_calls |-> outcome.tool_calls],
                                  !.pending = outcome.tool_calls]
              ELSE ProcessWithToolsReturned(called,
                       [content |-> TextOr(outcome.content, "NO_CONTENT"),
                        toolCalls |-> <<>>])]
        /\ UNCHANGED <<systemPrompts, nextPromptId, storageVars, lastOp, ops>>

\* mcp-client.ts 282-312: the next requested call is parsed and dispatched
ExecuteToolCall(t, draw, fetched) ==
    LET tr       == turn[t]
        toolCall == Head(tr.pending)
        parsed   == JSONparse(toolCall.arguments)
        ran      == executeTool(toolCall.name, parsed.value, draw, fetched)
        began    == [tr EXCEPT !.executed = Append(@, toolCall.name)]
    IN  /\ tr.pc = "toolCall"
        /\ turn' = [turn EXCEPT ![t] =
              IF toolCall.type # "function"
              THEN IF Tail(tr.pending) = <<>>
                   THEN ProcessWithToolsReturned(tr,
                            [content |-> TextOr(tr.assistantMessage.content, "NO_CONTENT"),
                             toolCalls |-> <<>>])
                   ELSE [tr EXCEPT !.pending = Tail(@)]
              ELSE IF parsed.threw
              THEN ProcessWithToolsReturned([tr EXCEPT !.raised = Append(@, parsed.error)],
                                            PwtCatch(parsed.error))
              ELSE IF ran.threw
              THEN ProcessWithToolsReturned([began EXCEPT !.raised = Append(@, ran.error)],
                                            PwtCatch(ran.error))
              ELSE [began EXCEPT !.pc = "secondPass",
                                 !.pwtToolCalls = Append(@,
                                     [name |-> toolCall.name, arguments |-> parsed.value,
                                      result |-> ran.value])]]
        /\ UNCHANGED <<systemPrompts, nextPromptId, storageVars, mcp, lastOp, ops>>

\* mcp-client.ts 321-341: the tool result goes back to the provider, whose text is returned
SecondPass(t, outcome) ==
    LET tr       == turn[t]
        toolCall == Head(tr.pending)
        result   == tr.pwtToolCalls[Len(tr.pwtToolCalls)].result
        called == [tr EXCEPT !.providerCalls = Append(@,
                     ProviderCall("tools",
                         << [role |-> "system", content |-> SystemInstruction],
                            [role |-> "user", content |-> tr.req.message],
                            tr.assistantMessage,
                            ToolResultChatMessage(toolCall, result) >>,
                         <<>>, outcome.ok)),
                             !.replies = Append(@, outcome)]
    IN  /\ tr.pc = "secondPass"
        /\ turn' = [turn EXCEPT ![t] =
              IF outcome.ok
              THEN ProcessWithToolsReturned(called,
                       [content |-> TextOr(outcome.content, "NO_CONTENT"),
                        toolCalls |-> tr.pwtToolCalls])
              ELSE ProcessWithToolsReturned(called, PwtCatch("provider request failed"))]
        /\ UNCHANGED <<systemPrompts, nextPromptId, storageVars, mcp, lastOp, ops>>

\* ------------------------------------------- POST /api/chat: the handler

others == <<systemPrompts, nextPromptId, mcpTools, mcp, lastOp, ops>>

\* routes.ts 441-449: validation, then the conversation to use
PostChat(t, req) ==
    /\ turn[t].pc = "idle"
    /\ turn' = [turn EXCEPT ![t] =
          IF req.message = ""
          THEN handleError(NewTurn(req), "ZodError")
          ELSE [NewTurn(req) EXCEPT !.pc = IF req.conversationId = 0
                                            THEN "createConversation"
                                            ELSE "storeUser"]]
    /\ UNCHANGED <<others, conversations, nextConversationId, messages, nextMessageId>>

\* routes.ts 450-459: a new conversation with the user's default prompt and no tools
CreateConversation(t, dbOk) ==
    LET tr == turn[t]
        defaultPrompt == getDefaultSystemPrompt(systemPrompts, MOCK_USER_ID)
    IN  /\ tr.pc = "createConversation"
        /\ IF dbOk
           THEN \E systemPromptId \in
                    IF defaultPrompt = {} THEN {0} ELSE {p.id : p \in defaultPrompt} :
                  /\ conversations' = conversations \cup
                        {[id |-> nextConversationId, title |-> tr.req.message,
                          userId |-> MOCK_USER_ID, systemPromptId |-> systemPromptId,
                          enabledTools |-> <<>>]}
                  /\ nextConversationId' = nextConversationId + 1
                  /\ turn' = [turn EXCEPT ![t] =
                        [tr EXCEPT !.pc = "storeUser",
                                   !.conversationIdToUse = nextConversationId,
                                   !.created = @ \cup {nextConversationId}]]
           ELSE /\ turn' = [turn EXCEPT ![t] = StorageThrew(tr)]
                /\ UNCHANGED <<conversations, nextConversationId>>
        /\ UNCHANGED <<others, messages, nextMessageId>>

\* a handler that does not store the user's message before it calls the provider
StoreUserMessageLater(t, dbOk) ==
    /\ turn[t].pc = "storeUser"
    /\ turn' = [turn EXCEPT ![t].pc = "readHistory"]
    /\ UNCHANGED <<others, conversations, nextConversationId, messages, nextMessageId>>

\* routes.ts 461-467
StoreUserMessage(t, dbOk) ==
    LET tr == turn[t]
    IN  /\ tr.pc = "storeUser"
        /\ IF dbOk /\ CanInsertMessage(conversations, tr.conversationIdToUse)
           THEN /\ messages' = messages \cup {UserMessage(nextMessageId, tr)}
                /\ nextMessageId' = nextMessageId + 1
                /\ turn' = [turn EXCEPT ![t] =
                      [tr EXCEPT !.pc = "readHistory",
                                 !.appended = Append(@, UserMessage(nextMessageId, tr))]]
           ELSE /\ turn' = [turn EXCEPT ![t] = StorageThrew(tr)]
                /\ UNCHANGED <<messages, nextMessageId>>
        /\ UNCHANGED <<others, conversations, nextConversationId>>

\* routes.ts 469-470
ReadHistory(t, dbOk) ==
    LET tr == turn[t]
    IN  /\ tr.pc = "readHistory"
        /\ turn' = [turn EXCEPT ![t] =
              IF dbOk
              THEN [tr EXCEPT !.pc = "resolvePrompt",
                              !.conversationMessages =
                                  getConversationMessages(messages, tr.conversationIdToUse)]
              ELSE StorageThrew(tr)]
        /\ UNCHANGED <<others, conversations, nextConversationId, messages, nextMessageId>>

\* systemPrompt?.content of the prompt with this id, no text when the id is 0 or unknown
ContentOfPrompt(table, id) ==
    IF getSystemPrompt(table, id) = {} THEN ""
    ELSE (CHOOSE p \in getSystemPrompt(table, id) : TRUE).content

\* a resolution that prefers the prompt stored with the conversation
EffectiveSystemPromptStoredFirst(req, conversationIdToUse) ==
    LET conversation == getConversation(conversations, conversationIdToUse)
        stored == IF conversation = {} THEN 0
                  ELSE (CHOOSE c \in conversation : TRUE).systemPromptId
    IN  IF stored # 0 THEN ContentOfPrompt(systemPrompts, stored)
        ELSE ContentOfPrompt(systemPrompts, req.systemPromptId)

\* routes.ts 472-483: the request's prompt id, else the conversation's
EffectiveSystemPrompt(req, conversationIdToUse) ==
    IF req.systemPromptId # 0
    THEN ContentOfPrompt(systemPrompts, req.systemPromptId)
    ELSE LET conversation == getConversation(conversations, conversationIdToUse)
         IN  IF conversation = {} THEN ""
             ELSE ContentOfPrompt(systemPrompts,
                      (CHOOSE c \in conversation : TRUE).systemPromptId)

ResolveSystemPrompt(t, dbOk) ==
    LET tr == turn[t]
    IN  /\ tr.pc = "resolvePrompt"
        /\ turn' = [turn EXCEPT ![t] =
              IF dbOk
              THEN [tr EXCEPT !.pc = "resolveTools",
                              !.systemPromptContent =
                                  EffectiveSystemPrompt(tr.req, tr.conversationIdToUse)]
              ELSE StorageThrew(tr)]
        /\ UNCHANGED <<others, conversations, nextConversationId, messages, nextMessageId>>

\* routes.ts 489-506: the conversation's enabled tools that exist and are enabled
ResolveEnabledTools(useTool, conversationIdToUse) ==
    LET conversation == getConversation(conversations, conversationIdToUse)
    IN  IF useTool # "true" \/ conversation = {} THEN <<>>
        ELSE EnabledToolsOf(mcpTools, (CHOOSE c \in conversation : TRUE).enabledTools)

\* routes.ts 485-539: tools, tool block, formatted messages, and the path to take
ResolveTools(t, dbOk) ==
    LET tr    == turn[t]
        tools == ResolveEnabledTools(tr.req.useTool, tr.conversationIdToUse)
        names == [i \in 1..Len(tools) |-> tools[i].name]
        info  == ToolsInfo(tools)
        text  == WithToolsInfo(tr.systemPromptContent, info)
    IN  /\ tr.pc = "resolveTools"
        /\ turn' = [turn EXCEPT ![t] =
              IF dbOk \/ tr.req.useTool # "true"   \* no storage call without useTool
              THEN [tr EXCEPT !.availableTools = names,
                              !.toolsInfo = info,
                              !.systemPromptContent = text,
                              !.formattedMessages =
                                  formatMessagesForOpenAI(tr.conversationMessages, text),
                              !.pc = IF UsesTools(tr.req.useTool, names)
                                     THEN "ensureMcp" ELSE "direct"]
              ELSE StorageThrew(tr)]
        /\ UNCHANGED <<others, conversations, nextConversationId, messages, nextMessageId>>

\* routes.ts 541-544
EnsureMcpInitialized(t, spawned) ==
    /\ turn[t].pc = "ensureMcp"
    /\ mcp' = IF getAvailableTools(mcp) = <<>> THEN initialize(mcp, spawned) ELSE mcp
    /\ turn' = [turn EXCEPT ![t].pc = "firstPass",
                            ![t].initialized = IF getAvailableTools(mcp) = <<>>
                                               THEN Append(@, spawned) ELSE @]
    /\ UNCHANGED <<systemPrompts, nextPromptId, storageVars, lastOp, ops>>

\* routes.ts 553-564: the id of the first enabledTools row whose name includes the call's
RECURSIVE MatchingToolId(_, _, _)
MatchingToolId(rows, toolIds, name) ==
    IF toolIds = <<>> THEN 0
    ELSE IF \E tool \in getMcpTool(rows, Head(toolIds)) : Includes(tool.name, name)
    THEN Head(toolIds)
    ELSE MatchingToolId(rows, Tail(toolIds), name)

\* the catch of routes.ts 605-607 sends the handler to the fallback completion
FindToolId(t, dbOk) ==
    LET tr == turn[t]
        conversation == getConversation(conversations, tr.conversationIdToUse)
    IN  /\ tr.pc = "findToolId"
        /\ turn' = [turn EXCEPT ![t] =
              IF dbOk
              THEN [tr EXCEPT !.pc = "storeAssistantToolCall",
                              !.toolId =
                                  IF conversation = {} THEN 0
                                  ELSE MatchingToolId(mcpTools,
                                           (CHOOSE c \in conversation : TRUE).enabledTools,
                                           tr.toolCalls[1].name)]
              ELSE [tr EXCEPT !.pc = "fallback", !.storageFailed = TRUE]]
        /\ UNCHANGED <<others, conversations, nextConversationId, messages, nextMessageId>>

\* routes.ts 566-577
StoreAssistantToolCall(t, dbOk) ==
    LET tr == turn[t]
        m  == AssistantToolCallMessage(nextMessageId, tr)
    IN  /\ tr.pc = "storeAssistantToolCall"
        /\ IF dbOk /\ CanInsertMessage(conversations, tr.conversationIdToUse)
           THEN /\ messages' = messages \cup {m}
                /\ nextMessageId' = nextMessageId + 1
                /\ turn' = [turn EXCEPT ![t] =
                      [tr EXCEPT !.pc = "storeToolResult", !.appended = Append(@, m)]]
           ELSE /\ turn' = [turn EXCEPT ![t] =
                      [tr EXCEPT !.pc = "fallback", !.storageFailed = TRUE]]
                /\ UNCHANGED <<messages, nextMessageId>>
        /\ UNCHANGED <<others, conversations, nextConversationId>>

\* routes.ts 579-603: the tool message, then the response with the tool call
StoreToolResult(t, dbOk) ==
    LET tr == turn[t]
        m  == ToolResultMessage(nextMessageId, tr)
    IN  /\ tr.pc = "storeToolResult"
        /\ IF dbOk /\ CanInsertMessage(conversations, tr.conversationIdToUse)
           THEN /\ messages' = messages \cup {m}
                /\ nextMessageId' = nextMessageId + 1
                /\ turn' = [turn EXCEPT ![t] =
                      [tr EXCEPT !.pc = "done",
                                 !.appended = Append(@, m),
                                 !.response =
                                     [status |-> 200, content |-> tr.finalResponse,
                                      conversationId |-> tr.conversationIdToUse,
                                      toolCall |-> [toolId |-> tr.toolId,
                                                    toolName |-> tr.toolCalls[1].name,
                                                    parameters |-> tr.toolCalls[1].arguments],
                                      toolResult |-> tr.toolCalls[1].result]]]
           ELSE /\ turn' = [turn EXCEPT ![t] =
                      [tr EXCEPT !.pc = "fallback", !.storageFailed = TRUE]]
                /\ UNCHANGED <<messages, nextMessageId>>
        /\ UNCHANGED <<others, conversations, nextConversationId>>

\* openai.ts 21-37 as called by the handler: the text, or a throw to handleError
generateChatCompletion(tr, outcome) ==
    LET called == [tr EXCEPT !.providerCalls = Append(@,
                     ProviderCall("plain", tr.formattedMessages, <<>>, outcome.ok)),
                             !.replies = Append(@, outcome)]
    IN  IF outcome.ok
        THEN [called EXCEPT !.pc = "storeAssistant",
                            !.finalResponse = TextOr(outcome.content, "")]
        ELSE handleError(called, "Error")

\* routes.ts 605-609
FallbackCompletion(t, outcome) ==
    /\ turn[t].pc = "fallback"
    /\ turn' = [turn EXCEPT ![t] = generateChatCompletion(turn[t], outcome)]
    /\ UNCHANGED <<others, conversations, nextConversationId, messages, nextMessageId>>

\* routes.ts 610-613
DirectCompletion(t, outcome) ==
    /\ turn[t].pc = "direct"
    /\ turn' = [turn EXCEPT ![t] = generateChatCompletion(turn[t], outcome)]
    /\ UNCHANGED <<others, conversations, nextConversationId, messages, nextMessageId>>

\* routes.ts 615-628: the assistant message, then the response
StoreAssistant(t, dbOk) ==
    LET tr == turn[t]
        m  == AssistantMessage(nextMessageId, tr)
    IN  /\ tr.pc = "storeAssistant"
        /\ IF dbOk /\ CanInsertMessage(conversations, tr.conversationIdToUse)
           THEN /\ messages' = messages \cup {m}
                /\ nextMessageId' = nextMessageId + 1
                /\ turn' = [turn EXCEPT ![t] =
                      [tr EXCEPT !.pc = "done",
                                 !.appended = Append(@, m),
                                 !.response =
                                     [status |-> 200, content |-> tr.finalResponse,
                                      conversationId |-> tr.conversationIdToUse,
                                      availableTools |-> tr.availableTools]]]
           ELSE /\ turn' = [turn EXCEPT ![t] = StorageThrew(tr)]
                /\ UNCHANGED <<messages, nextMessageId>>
        /\ UNCHANGED <<others, conversations, nextConversationId>>

\* ------------------------------------------------ the chat specification

\* the store before the turn: two prompts, two tools (tool 3 was deleted), a
\* conversation with tools 1, 2, 3 enabled and one whose enabled tools are all
\* disabled or deleted
InitialPrompts ==
    { [id |-> 1, userId |-> 1, content |-> "P1", isDefault |-> TRUE],
      [id |-> 2, userId |-> 1, content |-> "P2", isDefault |-> FALSE] }

InitialTools ==
    { [id |-> 1, name |-> "get_weather_v2", description |-> "weather", userId |-> 1,
       isEnabled |-> TRUE],
      [id |-> 2, name |-> "get_city_info", description |-> "city", userId |-> 1,
       isEnabled |-> FALSE] }

InitialConversations ==
    { [id |-> 1, title |-> "weather", userId |-> 1, systemPromptId |-> 0,
       enabledTools |-> <<1, 2, 3>>],
      [id |-> 2, title |-> "city", userId |-> 1, systemPromptId |-> 1,
       enabledTools |-> <<2, 3>>] }

\* the three messages an earlier tool turn on conversation 1 left
EarlierTurn ==
    [NewTurn([message |-> "hello", conversationId |-> 1, systemPromptId |-> 0,
              useTool |-> "true"])
        EXCEPT !.finalResponse = "A2",
               !.toolId = 1,
               !.toolCalls = << [name |-> "get_weather", arguments |-> <<>>,
                                 result |-> executeWeatherTool(<<>>,
                                     CHOOSE d \in WeatherDraws : TRUE).value] >>]

EarlierMessages ==
    { UserMessage(1, EarlierTurn), AssistantToolCallMessage(2, EarlierTurn),
      ToolResultMessage(3, EarlierTurn) }

\* the service as constructed, after initialize(), and after shutdown()
ServiceStates ==
    LET new == { [MCPNew EXCEPT !.tavilyDisabled = d] : d \in BOOLEAN }
        up  == { initialize(svc, TRUE) : svc \in new }
    IN  new \cup up \cup { shutdown(svc) : svc \in up }

Init ==
    /\ systemPrompts = InitialPrompts
    /\ nextPromptId = 3
    /\ conversations = InitialConversations
    /\ nextConversationId = 3
    /\ mcpTools = InitialTools
    /\ messages \in { {}, EarlierMessages }
    /\ nextMessageId = Cardinality(messages) + 1
    /\ mcp \in ServiceStates
    /\ turn = [t \in TurnIds |-> [pc |-> "idle"]]
    /\ lastOp = NoOp
    /\ ops = <<>>

Next ==
    \/ \E t \in TurnIds, req \in ChatRequests : PostChat(t, req)
    \/ \E t \in TurnIds, dbOk \in BOOLEAN : CreateConversation(t, dbOk)
    \/ \E t \in TurnIds, dbOk \in BOOLEAN : StoreUserMessage(t, dbOk)
    \/ \E t \in TurnIds, dbOk \in BOOLEAN : ReadHistory(t, dbOk)
    \/ \E t \in TurnIds, dbOk \in BOOLEAN : ResolveSystemPrompt(t, dbOk)
    \/ \E t \in TurnIds, dbOk \in BOOLEAN : ResolveTools(t, dbOk)
    \/ \E t \in TurnIds, spawned \in BOOLEAN : EnsureMcpInitialized(t, spawned)
    \/ \E t \in TurnIds, outcome \in FirstPassOutcomes, spawned \in BOOLEAN :
          FirstPass(t, outcome, spawned)
    \/ \E t \in TurnIds, draw \in WeatherDraws, fetched \in BOOLEAN :
          ExecuteToolCall(t, draw, fetched)
    \/ \E t \in TurnIds, outcome \in SecondPassOutcomes : SecondPass(t, outcome)
    \/ \E t \in TurnIds, dbOk \in BOOLEAN : FindToolId(t, dbOk)
    \/ \E t \in TurnIds, dbOk \in BOOLEAN : StoreAssistantToolCall(t, dbOk)
    \/ \E t \in TurnIds, dbOk \in BOOLEAN : StoreToolResult(t, dbOk)
    \/ \E t \in TurnIds, outcome \in CompletionOutcomes : FallbackCompletion(t, outcome)
    \/ \E t \in TurnIds, outcome \in CompletionOutcomes : DirectCompletion(t, outcome)
    \/ \E t \in TurnIds, dbOk \in BOOLEAN : StoreAssistant(t, dbOk)

Spec == Init /\ [][Next]_vars

\* ------------------------------------------------------- chat properties

Started(t) == turn[t].pc # "idle"

Done(t) == turn[t].pc = "done"

Roles(msgs) == [i \in 1..Len(msgs) |-> msgs[i].role]

IsPrefix(short, long) ==
    Len(short) <= Len(long) /\ \A i \in 1..Len(short) : short[i] = long[i]

\* the last n messages of the turn's conversation, as a history read returns them
LastOfHistory(t, n) ==
    LET history == getConversationMessages(messages, turn[t].conversationIdToUse)
    IN  IF Len(history) < n THEN <<>>
        ELSE SubSeq(history, Len(history) - n + 1, Len(history))

\* the conversation of the turn has a tool that exists and is enabled
HasEnabledTool(t) ==
    \E c \in getConversation(conversations, turn[t].conversationIdToUse) :
        EnabledToolsOf(mcpTools, c.enabledTools) # <<>>

\* the first response of the provider asked for a tool call
ToolRequested(t) == turn[t].assistantMessage # Null

C1_Case(t) ==
    /\ Done(t)
    /\ turn[t].req.useTool = "true"
    /\ HasEnabledTool(t)
    /\ ToolRequested(t)
    /\ Len(turn[t].providerCalls) >= 2
    /\ turn[t].providerCalls[1].ok
    /\ turn[t].providerCalls[2].ok
    /\ ~turn[t].storageFailed

\* C1: a turn with useTool=true on a conversation with an existing, enabled tool,
\* whose first response requests a tool call and whose two provider calls succeed
\* (every storage call succeeding), appends to the conversation exactly a user
\* message, an assistant message with a toolCall and a tool message with a
\* toolResult, in this order.
C1_ToolTurnAppendsThree ==
    \A t \in DOMAIN turn :
        (Started(t) /\ C1_Case(t)) =>
            /\ Roles(turn[t].appended) = <<"user", "assistant", "tool">>
            /\ turn[t].appended[2].toolCall # Null
            /\ turn[t].appended[3].toolResult # Null
            /\ LastOfHistory(t, 3) = turn[t].appended
            /\ getConversationMessages(messages, turn[t].conversationIdToUse)
                 = turn[t].conversationMessages \o SubSeq(turn[t].appended, 2, 3)

C1_Witness ==
    \E t \in DOMAIN turn :
        Started(t) /\ C1_Case(t) /\ Len(turn[t].assistantMessage.tool_calls) = 1

\* C2: a turn with useTool false or absent appends no message with role tool.
C2_NoToolMessageWithoutUseTool ==
    \A t \in DOMAIN turn :
        (Started(t) /\ turn[t].req.useTool \in {"false", "absent"}) =>
            /\ \A i \in 1..Len(turn[t].appended) : turn[t].appended[i].role # "tool"
            /\ turn[t].executed = <<>>

C2_Witness ==
    \E t \in DOMAIN turn :
        /\ Started(t) /\ Done(t)
        /\ turn[t].req.useTool = "false"
        /\ HasEnabledTool(t)
        /\ turn[t].response.status = 200
        /\ Len(turn[t].appended) = 2

FirstPassFailed(t) ==
    turn[t].providerCalls # <<>> /\ ~turn[t].providerCalls[1].ok

\* C3: once the first provider call of a turn has failed, the turn's user message
\* is in the conversation history.
C3_UserMessageKeptOnProviderFailure ==
    \A t \in DOMAIN turn :
        (Started(t) /\ FirstPassFailed(t)) =>
            /\ turn[t].appended # <<>>
            /\ turn[t].appended[1].role = "user"
            /\ turn[t].appended[1].content = turn[t].req.message
            /\ \E i \in 1..Len(getConversationMessages(messages, turn[t].conversationIdToUse)) :
                  getConversationMessages(messages, turn[t].conversationIdToUse)[i]
                      = turn[t].appended[1]

C3_Witness ==
    \E t \in DOMAIN turn :
        /\ Started(t) /\ Done(t) /\ FirstPassFailed(t)
        /\ turn[t].providerCalls[1].api = "tools"

\* C4: the user message is appended before the first provider call, and what
\* the turn appends is the user message, then at most an assistant message, then
\* at most a tool message.
C4_TurnAppendsInOrder ==
    \A t \in DOMAIN turn :
        Started(t) =>
            /\ turn[t].providerCalls # <<>> => turn[t].appended # <<>>
            /\ IsPrefix(Roles(turn[t].appended), <<"user", "assistant", "tool">>)

\* C8: a turn calls the provider at most twice and executes at most one tool.
C8_AtMostTwoProviderCalls ==
    \A t \in DOMAIN turn :
        Started(t) => Len(turn[t].providerCalls) <= 2 /\ Len(turn[t].executed) <= 1

\* processWithTools has returned to the handler
ProcessWithToolsDone(t) == turn[t].pc \notin {"firstPass", "toolCall", "secondPass"}

\* C9: when the first response requests several tool calls, exactly one tool is
\* executed, the first requested, and the tool-call record of the turn has
\* exactly one entry, for that tool.
C9_OnlyFirstToolCall ==
    \A t \in DOMAIN turn :
        ( /\ Started(t) /\ ToolRequested(t) /\ ProcessWithToolsDone(t)
          /\ Len(turn[t].assistantMessage.tool_calls) >= 2 ) =>
            /\ turn[t].executed = <<turn[t].assistantMessage.tool_calls[1].name>>
            /\ Len(turn[t].toolCalls) = 1
            /\ turn[t].toolCalls[1].name = turn[t].assistantMessage.tool_calls[1].name

ToolPathCallFailed(t) ==
    \E i \in 1..Len(turn[t].providerCalls) :
        turn[t].providerCalls[i].api = "tools" /\ ~turn[t].providerCalls[i].ok

\* C10: when the first or second provider call of the tool path fails, the turn
\* (its storage calls succeeding) makes a direct completion call with the
\* formatted history and answers with its text, never with the failure.
C10_FallbackOnProviderFailure ==
    \A t \in DOMAIN turn :
        (Started(t) /\ Done(t) /\ ToolPathCallFailed(t) /\ ~turn[t].storageFailed) =>
            /\ \E i \in 1..Len(turn[t].providerCalls) :
                  /\ turn[t].providerCalls[i].api = "plain"
                  /\ turn[t].providerCalls[i].messages = turn[t].formattedMessages
            /\ turn[t].response.status = 200 =>
                  turn[t].response.content # PwtCatch("provider request failed").content

\* the second request of processWithTools to the provider failed
SecondPassFailed(t) ==
    /\ Len(turn[t].providerCalls) >= 2
    /\ turn[t].providerCalls[2].api = "tools"
    /\ ~turn[t].providerCalls[2].ok

\* C11: when the second provider call fails after a tool was executed (the
\* storage calls succeeding), the content of the turn's response is the assistant
\* text of the first pass.
C11_SecondPassFailureReturnsFirstText ==
    \A t \in DOMAIN turn :
        (Done(t) /\ SecondPassFailed(t) /\ ~turn[t].storageFailed) =>
            /\ turn[t].executed # <<>>
            /\ turn[t].response.status = 200
            /\ turn[t].response.content = turn[t].assistantMessage.content

\* the result the tool step is said to produce when the tool raises
FailureResult(error) == [success |-> FALSE, error |-> error]

\* C12: when the argument parsing or the tool handler throws (the storage calls
\* succeeding), the turn completes with a tool message whose toolResult is
\* {success: false, error: <message>}, and the response carries that result.
C12_ToolFailureIsPersistedAndReturned ==
    \A t \in DOMAIN turn :
        (Done(t) /\ turn[t].raised # <<>> /\ ~turn[t].storageFailed) =>
            /\ turn[t].response.status = 200
            /\ \E i \in 1..Len(turn[t].appended) :
                  /\ turn[t].appended[i].role = "tool"
                  /\ turn[t].appended[i].toolResult = FailureResult(turn[t].raised[1])
            /\ "toolResult" \in DOMAIN turn[t].response
            /\ turn[t].response.toolResult = FailureResult(turn[t].raised[1])

\* every awaited call of the handler settles, so a started handler takes its
\* next step
Fairness == WF_vars(Next)

FairSpec == Spec /\ Fairness

\* the turn passed the validation of the request body
Validated(t) == Started(t) /\ turn[t].req.message # ""

UserMessagePersisted(t) ==
    /\ turn[t].appended # <<>>
    /\ turn[t].appended[1].role = "user"
    /\ turn[t].appended[1].content = turn[t].req.message
    /\ turn[t].appended[1] \in messages

\* the failing call was the creation of the conversation or the insert of the
\* user message: nothing of the turn is stored and no provider or tool was called
FailedBeforeUserMessage(t) ==
    /\ turn[t].storageFailed
    /\ turn[t].response.status = 500
    /\ turn[t].appended = <<>>
    /\ turn[t].providerCalls = <<>>
    /\ turn[t].executed = <<>>

Answered(t) ==
    /\ Done(t)
    /\ turn[t].response # Null
    /\ UserMessagePersisted(t) \/ FailedBeforeUserMessage(t)

MissingReference(t) ==
    \/ /\ turn[t].req.conversationId # 0
       /\ getConversation(conversations, turn[t].req.conversationId) = {}
    \/ /\ turn[t].req.systemPromptId # 0
       /\ getSystemPrompt(systemPrompts, turn[t].req.systemPromptId) = {}

\* no storage call of the turn failed, other than an insert into a conversation
\* that does not exist
NoStorageFault(t) ==
    turn[t].storageFailed =>
        getConversation(conversations, turn[t].conversationIdToUse) = {}

\* C14: a turn that names a conversation or a system prompt that does not exist
\* is answered with a failure, appends no message and creates no conversation
\* (with a storage that does not fail otherwise).
C14_MissingReferenceRejected ==
    \A t \in DOMAIN turn :
        (Done(t) /\ Validated(t) /\ MissingReference(t) /\ NoStorageFault(t)) =>
            /\ turn[t].response.status >= 400
            /\ turn[t].appended = <<>>
            /\ turn[t].created = {}

\* C15: a turn whose message is the empty string is answered 400 before any
\* conversation is created, any message stored and any provider or tool called:
\* conversations and messages are as they were before the request.
C15_EmptyMessageRejected ==
    \A t \in DOMAIN turn :
        (Started(t) /\ turn[t].req.message = "") =>
            /\ Done(t)
            /\ turn[t].response.status = 400
            /\ turn[t].created = {} /\ turn[t].appended = <<>>
            /\ turn[t].providerCalls = <<>> /\ turn[t].executed = <<>>
            /\ conversations = InitialConversations
            /\ messages \in {{}, EarlierMessages}
            /\ nextMessageId = Cardinality(messages) + 1

C15_Witness ==
    \E t \in DOMAIN turn :
        /\ Started(t) /\ turn[t].req.message = ""
        /\ turn[t].response.status = 400
        /\ messages = EarlierMessages

\* C16: in every direct completion call no message sent to the provider has role
\* tool: each tool message of the history read by the turn is sent as a system
\* message whose content is "Tool result: " followed by the content of the message.
C16_NoToolRoleInDirectCompletion ==
    \A t \in DOMAIN turn :
        Started(t) =>
            \A i \in 1..Len(turn[t].providerCalls) :
                turn[t].providerCalls[i].api = "plain" =>
                    LET sent    == turn[t].providerCalls[i].messages
                        history == turn[t].conversationMessages
                        offset  == Len(sent) - Len(history)
                    IN  /\ \A j \in 1..Len(sent) : sent[j].role # "tool"
                        /\ \A k \in 1..Len(history) :
                              history[k].role = "tool" =>
                                  sent[k + offset] =
                                      [role |-> "system",
                                       content |-> "Tool result: " \o history[k].content]

\* the registry tool of this name is one of the turn's enabled tools, by the
\* name match of routes.ts 558-559
EnabledForTurn(t, name) ==
    \E k \in 1..Len(turn[t].availableTools) : Includes(turn[t].availableTools[k], name)

\* C17: the tools declared to the provider in the first pass are tools of the
\* conversation's enabled subset, and no other tool is executed in the turn.
C17_OnlyEnabledToolsDeclared ==
    \A t \in DOMAIN turn :
        Started(t) =>
            /\ \A i \in 1..Len(turn[t].providerCalls) :
                  \A j \in 1..Len(turn[t].providerCalls[i].tools) :
                      EnabledForTurn(t, turn[t].providerCalls[i].tools[j])
            /\ \A e \in 1..Len(turn[t].executed) :
                  EnabledForTurn(t, turn[t].executed[e])

\* a completion of the turn returned the marker text
MarkerReturned(t) ==
    \E i \in 1..Len(turn[t].replies) :
        turn[t].replies[i].ok /\ turn[t].replies[i].content = UseToolMarker

\* tool 1, the tool the marker names, is enabled for the turn's conversation
MarkerToolEnabled(t) ==
    \E c \in getConversation(conversations, turn[t].conversationIdToUse) :
        \E k \in 1..Len(c.enabledTools) :
            /\ c.enabledTools[k] = 1
            /\ \E tool \in getMcpTool(mcpTools, 1) : tool.isEnabled

\* C18: when a completion of a useTool turn returns a text with the marker
\* [USE_TOOL:<id>:<parameters>] of a tool enabled for the conversation (the
\* storage calls succeeding), the tool is executed and the turn appends an
\* assistant message with toolCall and a tool message with toolResult.
C18_MarkerIsAToolCall ==
    \A t \in DOMAIN turn :
        (/\ Done(t) /\ ~turn[t].storageFailed
         /\ turn[t].req.useTool = "true"
         /\ MarkerReturned(t) /\ MarkerToolEnabled(t)) =>
            /\ turn[t].executed # <<>>
            /\ \E i, j \in 1..Len(turn[t].appended) :
                  /\ i < j
                  /\ turn[t].appended[i].role = "assistant"
                  /\ turn[t].appended[i].toolCall # Null
                  /\ turn[t].appended[j].role = "tool"
                  /\ turn[t].appended[j].toolResult # Null

\* C19: after a call of initialize() in the turn, also one in which the built-in
\* server process did not start or the search credential is absent, the available
\* tools contain get_weather and get_city_info, and the call returned: the handler
\* goes on to the first pass.
C19_BuiltInToolsAfterInitialize ==
    \A t \in DOMAIN turn :
        (Started(t) /\ turn[t].initialized # <<>>) =>
            /\ \A name \in {"get_weather", "get_city_info"} :
                  \E i \in 1..Len(getAvailableTools(mcp)) : getAvailableTools(mcp)[i] = name
            /\ mcp.isConnected
            /\ turn[t].providerCalls = <<>> => turn[t].pc = "firstPass"

C19_Witness ==
    \E t \in DOMAIN turn :
        /\ Started(t) /\ turn[t].initialized = <<FALSE>>
        /\ mcp.tavilyDisabled /\ mcp.serverProcesses = {}
        /\ getAvailableTools(mcp) = BuiltInTools

\* a turn sent without conversationId and without tool use, whose one provider
\* call and whose storage calls succeeded
C20_Case(t) ==
    /\ Done(t)
    /\ turn[t].req.conversationId = 0
    /\ turn[t].req.useTool # "true"
    /\ ~turn[t].storageFailed
    /\ Len(turn[t].replies) = 1
    /\ turn[t].replies[1].ok

\* C20: such a turn creates exactly one conversation, returns its id, and a
\* history read for that id returns exactly two messages: the user message with
\* the submitted text, then the assistant message with the provider's text.
C20_NewConversationTurn ==
    \A t \in DOMAIN turn :
        C20_Case(t) =>
            LET id      == turn[t].response.conversationId
                history == getConversationMessages(messages, id)
            IN  /\ turn[t].response.status = 200
                /\ turn[t].created = {id}
                /\ conversations = InitialConversations \cup getConversation(conversations, id)
                /\ id \notin {c.id : c \in InitialConversations}
                /\ Len(history) = 2
                /\ history[1].role = "user"
                /\ history[1].content = turn[t].req.message
                /\ history[2].role = "assistant"
                /\ history[2].content = turn[t].replies[1].content
                /\ turn[t].response.content = turn[t].replies[1].content

C20_Witness ==
    \E t \in DOMAIN turn :
        /\ C20_Case(t)
        /\ turn[t].replies[1].content = "D"
        /\ EarlierMessages \subseteq messages /\ Len(turn[t].appended) = 2

\* ------------------------------ the message store: inserts, reads, deletion

MaxMessages == 3

ConversationIds == {c.id : c \in InitialConversations}

\* storage.ts 113-115: DELETE FROM messages WHERE conversation_id = :id
DeleteMessagesOf(rows, id) == {m \in rows : m.conversationId # id}

\* a second statement that deletes nothing
DeleteConversationRowNone(rows, id) == rows

\* storage.ts 118-120: DELETE FROM conversations WHERE id = :id
DeleteConversationRow(rows, id) == {c \in rows : c.id # id}

\* the foreign key of messages.conversation_id lets the row go only when no
\* message names it
CanDeleteConversation(rows, id) == \A m \in rows : m.conversationId # id

NoReads == [c \in ConversationIds |-> {}]

\* storage.ts 132-138, called by any handler: one INSERT
StoreCreateMessage(conversationId, role) ==
    /\ nextMessageId <= MaxMessages
    /\ CanInsertMessage(conversations, conversationId)
    /\ messages' = messages \cup
          {[id |-> nextMessageId, role |-> role, content |-> "m", userId |-> MOCK_USER_ID,
            conversationId |-> conversationId, toolCall |-> Null, toolResult |-> Null]}
    /\ nextMessageId' = nextMessageId + 1
    /\ ops' = NoReads
    /\ UNCHANGED <<systemPrompts, nextPromptId, conversations, nextConversationId,
                   mcpTools, mcp, turn, lastOp>>

\* storage.ts 124-130, called by GET /api/messages and by the chat handler
StoreReadMessages(conversationId) ==
    LET result == getConversationMessages(messages, conversationId)
    IN  /\ lastOp' = [op |-> "read", conversationId |-> conversationId,
                      previous |-> ops[conversationId], result |-> result]
        /\ ops' = [ops EXCEPT ![conversationId] = {result}]
        /\ UNCHANGED <<systemPrompts, nextPromptId, storageVars, mcp, turn>>

\* routes.ts 146-149: DELETE /api/conversations/:id is received
DeleteConversationStart(id) ==
    /\ turn[1].pc = "idle"
    /\ turn' = [turn EXCEPT ![1] = [pc |-> "deleteMessages", id |-> id,
                                    response |-> Null, deleted |-> {}]]
    /\ UNCHANGED <<systemPrompts, nextPromptId, storageVars, mcp, lastOp, ops>>

\* storage.ts 113-115
DeleteConversationMessages ==
    /\ turn[1].pc = "deleteMessages"
    /\ messages' = DeleteMessagesOf(messages, turn[1].id)
    /\ turn' = [turn EXCEPT ![1].pc = "deleteConversation",
                            ![1].deleted = messages \ DeleteMessagesOf(messages, turn[1].id)]
    /\ ops' = NoReads
    /\ UNCHANGED <<systemPrompts, nextPromptId, conversations, nextConversationId,
                   mcpTools, nextMessageId, mcp, lastOp>>

\* storage.ts 118-120, then routes.ts 150-153: the row goes and the handler answers,
\* or the statement fails on the foreign key and handleError answers 500
DeleteConversationFinish ==
    /\ turn[1].pc = "deleteConversation"
    /\ IF CanDeleteConversation(messages, turn[1].id)
       THEN /\ conversations' = DeleteConversationRow(conversations, turn[1].id)
            /\ turn' = [turn EXCEPT ![1].pc = "done",
                                    ![1].response = [status |-> 200, success |-> TRUE]]
       ELSE /\ UNCHANGED conversations
            /\ turn' = [turn EXCEPT ![1].pc = "done",
                                    ![1].response = [status |-> 500,
                                                     message |-> "Internal server error"]]
    /\ ops' = NoReads
    /\ UNCHANGED <<systemPrompts, nextPromptId, nextConversationId, mcpTools,
                   messages, nextMessageId, mcp, lastOp>>

InitStore ==
    /\ systemPrompts = InitialPrompts
    /\ nextPromptId = 3
    /\ conversations = InitialConversations
    /\ nextConversationId = 3
    /\ mcpTools = InitialTools
    /\ messages = {}
    /\ nextMessageId = 1
    /\ mcp = MCPNew
    /\ turn = << [pc |-> "idle"] >>
    /\ lastOp = NoOp
    /\ ops = NoReads

NextStore ==
    \/ \E c \in ConversationIds \cup {9}, role \in {"user", "assistant"} :
          StoreCreateMessage(c, role)
    \/ \E c \in ConversationIds : StoreReadMessages(c)
    \/ \E id \in ConversationIds \cup {9} : DeleteConversationStart(id)
    \/ DeleteConversationMessages
    \/ DeleteConversationFinish

SpecStore == InitStore /\ [][NextStore]_vars

\* the rows of the conversations other than id
OtherConversations(id) == {c \in conversations : c.id # id}

OtherMessages(id) == {m \in messages : m.conversationId # id}

\* deleteConversation(id) returned
DeleteCompleted ==
    turn[1].pc = "done" /\ turn[1].response.status = 200

\* C21: once deleteConversation(id) has completed, conversation id does not exist
\* and no message names it; and no statement of the deletion changes another
\* conversation or a message of another conversation.
C21_DeleteConversationCascades ==
    /\ [](DeleteCompleted =>
            /\ getConversation(conversations, turn[1].id) = {}
            /\ getConversationMessages(messages, turn[1].id) = <<>>)
    /\ [][(turn[1].pc \in {"deleteMessages", "deleteConversation"}
             /\ turn'[1].pc # turn[1].pc) =>
            /\ OtherConversations(turn[1].id)' = OtherConversations(turn[1].id)
            /\ OtherMessages(turn[1].id)' = OtherMessages(turn[1].id)]_vars

\* a conversation with messages was deleted while another one keeps its messages
C21_Witness ==
    /\ DeleteCompleted
    /\ turn[1].deleted # {}
    /\ messages # {}

\* C24: a read of a conversation's messages returns them in ascending id order,
\* each once, and a read that follows another read of the same conversation with
\* no write in between returns the same sequence.
C24_RepeatableOrderedRead ==
    lastOp.op = "read" =>
        /\ \A i, j \in 1..Len(lastOp.result) :
              i < j => lastOp.result[i].id < lastOp.result[j].id
        /\ \A i \in 1..Len(lastOp.result) :
              lastOp.result[i].conversationId = lastOp.conversationId
        /\ \A first \in lastOp.previous : first = lastOp.result

\* a second read, of two messages or more, after a read with no write in between
C24_Witness ==
    /\ lastOp.op = "read"
    /\ lastOp.previous # {}
    /\ Len(lastOp.result) >= 2

\* the first tool call the provider requested names no tool of the dispatch
UnknownToolRequested(t) ==
    /\ Started(t)
    /\ turn[t].assistantMessage # Null
    /\ turn[t].assistantMessage.tool_calls[1].name
          \notin {"get_weather", "get_city_info", "tavily_search"}

\* C22: when the requested tool is none of get_weather, get_city_info and
\* tavily_search, the execution does not raise, its result is the placeholder
\* message, the second request to the provider is made, and (that request and the
\* storage calls succeeding) the turn ends with the placeholder stored as the
\* toolResult of its tool message and returned in the response.
C22_UnknownToolPlaceholder ==
    \A t \in DOMAIN turn :
        (UnknownToolRequested(t) /\ turn[t].pc # "toolCall") =>
            LET name == turn[t].assistantMessage.tool_calls[1].name
            IN  /\ turn[t].raised = <<>>
                /\ Len(turn[t].pwtToolCalls) = 1
                /\ turn[t].pwtToolCalls[1].name = name
                /\ turn[t].pwtToolCalls[1].result = unknownToolResult(name)
                /\ turn[t].pc # "secondPass" =>
                      /\ Len(turn[t].providerCalls) >= 2
                      /\ turn[t].providerCalls[2].api = "tools"
                /\ (Done(t) /\ ~SecondPassFailed(t) /\ ~turn[t].storageFailed) =>
                      /\ Roles(turn[t].appended) = <<"user", "assistant", "tool">>
                      /\ turn[t].appended[3].toolResult = unknownToolResult(name)
                      /\ turn[t].response.toolResult = unknownToolResult(name)

C22_Witness ==
    \E t \in DOMAIN turn :
        /\ UnknownToolRequested(t) /\ Done(t)
        /\ turn[t].response.status = 200
        /\ "toolResult" \in DOMAIN turn[t].response
        /\ turn[t].response.toolResult = unknownToolResult("other_tool")

\* ----------------------- the MCPService singleton under concurrent callers

MaxCalls == 2

Callers == {1, 2}

\* the argument objects of get_city_info the model calls it with; Beijing, China
\* and unknown stand for the Chinese texts of the source
CityArgs ==
    { <<>> } \cup { [city |-> c] : c \in {"Beijing", "Shanghai", "Paris", "constructor", ""} }

IdleCaller == [pc |-> "idle", calls |-> 0]

CanCall(c) == ops[c].pc = "idle" /\ ops[c].calls < MaxCalls

\* initialize() is called and runs to its await
InitializeCall(c, spawned) ==
    /\ CanCall(c)
    /\ mcp' = initializeUntilAwait(mcp, spawned)
    /\ ops' = [ops EXCEPT ![c] = [pc |-> "initializing", calls |-> @.calls + 1]]
    /\ UNCHANGED <<systemPrompts, nextPromptId, storageVars, turn, lastOp>>

\* the awaited promise has settled: initialize() runs to its end
InitializeResume(c) ==
    /\ ops[c].pc = "initializing"
    /\ mcp' = initializeAfterAwait(mcp)
    /\ ops' = [ops EXCEPT ![c].pc = "idle"]
    /\ UNCHANGED <<systemPrompts, nextPromptId, storageVars, turn, lastOp>>

\* mcp-client.ts 242-246: processWithTools() initializes a service that is not
\* connected, and does not touch the registry otherwise
ProcessWithToolsCall(c, spawned) ==
    /\ CanCall(c)
    /\ IF mcp.isConnected
       THEN /\ UNCHANGED mcp
            /\ ops' = [ops EXCEPT ![c].calls = @ + 1]
       ELSE /\ mcp' = initializeUntilAwait(mcp, spawned)
            /\ ops' = [ops EXCEPT ![c] = [pc |-> "initializing", calls |-> @.calls + 1]]
    /\ UNCHANGED <<systemPrompts, nextPromptId, storageVars, turn, lastOp>>

\* mcp-client.ts 466-484: no await in shutdown()
ShutdownCall(c) ==
    /\ CanCall(c)
    /\ mcp' = shutdown(mcp)
    /\ ops' = [ops EXCEPT ![c].calls = @ + 1]
    /\ UNCHANGED <<systemPrompts, nextPromptId, storageVars, turn, lastOp>>

GetAvailableToolsCall(c) ==
    /\ CanCall(c)
    /\ lastOp' = [op |-> "getAvailableTools", result |-> getAvailableTools(mcp),
                  before |-> mcp, after |-> mcp]
    /\ ops' = [ops EXCEPT ![c].calls = @ + 1]
    /\ UNCHANGED <<systemPrompts, nextPromptId, storageVars, mcp, turn>>

\* the handler of get_city_info is called with an argument object
CityInfoCall(args) ==
    /\ lastOp' = [op |-> "get_city_info", args |-> args,
                  result |-> executeCityInfoTool(args)]
    /\ UNCHANGED <<systemPrompts, nextPromptId, storageVars, mcp, turn, ops>>

InitService ==
    /\ systemPrompts = InitialPrompts
    /\ nextPromptId = 3
    /\ conversations = InitialConversations
    /\ nextConversationId = 3
    /\ mcpTools = InitialTools
    /\ messages = {}
    /\ nextMessageId = 1
    /\ mcp \in { [MCPNew EXCEPT !.tavilyDisabled = d] : d \in BOOLEAN }
    /\ turn = NoTurns
    /\ lastOp = NoOp
    /\ ops = [c \in Callers |-> IdleCaller]

NextService ==
    \/ \E c \in Callers, spawned \in BOOLEAN : InitializeCall(c, spawned)
    \/ \E c \in Callers : InitializeResume(c)
    \/ \E c \in Callers, spawned \in BOOLEAN : ProcessWithToolsCall(c, spawned)
    \/ \E c \in Callers : ShutdownCall(c)
    \/ \E c \in Callers : GetAvailableToolsCall(c)
    \/ \E args \in CityArgs : CityInfoCall(args)

SpecService == InitService /\ [][NextService]_vars

\* C23: get_city_info returns a result for every argument object; the result
\* for city Beijing has country China, and the result for a city that is not a
\* key of the lookup table has country unknown.
C23_CityInfoTotal ==
    lastOp.op = "get_city_info" =>
        /\ ~lastOp.result.threw
        /\ "country" \in DOMAIN lastOp.result.value
        /\ \A city \in {"Beijing"} :
              lastOp.args = [city |-> city] => lastOp.result.value.country = "China"
        /\ \A city \in {"Paris", "constructor"} :
              lastOp.args = [city |-> city] => lastOp.result.value.country = "unknown"

NoDuplicateNames(tools) ==
    \A i, j \in 1..Len(tools) : i # j => tools[i] # tools[j]

\* C28: whatever calls of initialize(), processWithTools(), shutdown() and
\* getAvailableTools() were made, and however the concurrent ones interleaved, the
\* list getAvailableTools() returns holds no name twice, and a call of
\* getAvailableTools() leaves the service as it was.
C28_RegistryWithoutDuplicates ==
    /\ NoDuplicateNames(getAvailableTools(mcp))
    /\ lastOp.op = "getAvailableTools" =>
          /\ lastOp.after = lastOp.before
          /\ lastOp.result = lastOp.before.tools

\* every id of the conversation's enabledTools names a deleted or a disabled tool
StaleToolsOnly(t) ==
    \E c \in getConversation(conversations, turn[t].conversationIdToUse) :
        /\ c.enabledTools # <<>>
        /\ \A k \in 1..Len(c.enabledTools) :
              \A tool \in getMcpTool(mcpTools, c.enabledTools[k]) : ~tool.isEnabled

\* C26: a turn with useTool=true on a conversation whose enabled tool ids are all
\* stale takes the direct path: no tool block joins the system prompt, the
\* provider gets no request with tools, no tool is executed, no tool message is
\* appended, and the conversation's enabledTools stay as they were.
C26_StaleToolsTakeDirectPath ==
    \A t \in DOMAIN turn :
        (Started(t) /\ turn[t].req.useTool = "true" /\ StaleToolsOnly(t)) =>
            /\ turn[t].toolsInfo = "" /\ turn[t].availableTools = <<>>
            /\ turn[t].executed = <<>>
            /\ \A i \in 1..Len(turn[t].providerCalls) :
                  /\ turn[t].providerCalls[i].api = "plain"
                  /\ turn[t].providerCalls[i].messages =
                        formatMessagesForOpenAI(turn[t].conversationMessages,
                            EffectiveSystemPrompt(turn[t].req, turn[t].conversationIdToUse))
            /\ \A i \in 1..Len(turn[t].appended) : turn[t].appended[i].role # "tool"
            /\ getConversation(conversations, turn[t].conversationIdToUse)
                  \subseteq InitialConversations

C26_Witness ==
    \E t \in DOMAIN turn :
        /\ Done(t) /\ turn[t].req.useTool = "true" /\ StaleToolsOnly(t)
        /\ turn[t].response.status = 200
        /\ Len(turn[t].providerCalls) = 1

\* the prompt id the turn is to use: the request's, else the conversation's, else 0
PromptIdOfTurn(t) ==
    IF turn[t].req.systemPromptId # 0 THEN turn[t].req.systemPromptId
    ELSE LET conversation == getConversation(conversations, turn[t].conversationIdToUse)
         IN  IF conversation = {} THEN 0
             ELSE (CHOOSE c \in conversation : TRUE).systemPromptId

\* C27: in every direct completion call the system prompt sent is the content of
\* the prompt the request names, else of the prompt stored with the conversation
\* (followed by the tool block, if there is one); with neither prompt nor tool
\* block the messages sent are the history with no system message added.
C27_EffectiveSystemPrompt ==
    \A t \in DOMAIN turn :
        Started(t) =>
            \A i \in 1..Len(turn[t].providerCalls) :
                turn[t].providerCalls[i].api = "plain" =>
                    LET sent    == turn[t].providerCalls[i].messages
                        history == turn[t].conversationMessages
                        prompt  == ContentOfPrompt(systemPrompts, PromptIdOfTurn(t))
                        text    == WithToolsInfo(prompt, turn[t].toolsInfo)
                    IN  IF text = ""
                        THEN /\ Len(sent) = Len(history)
                             /\ \A k \in 1..Len(sent) :
                                   /\ sent[k].role = history[k].role
                                   /\ sent[k].content = history[k].content
                        ELSE /\ Len(sent) = Len(history) + 1
                             /\ sent[1] = [role |-> "system", content |-> text]
                             /\ turn[t].toolsInfo = "" => sent[1].content = prompt

\* the request names prompt 2 on a conversation that stores prompt 1
C27_Witness ==
    \E t \in DOMAIN turn :
        /\ Done(t) /\ turn[t].req.systemPromptId = 2 /\ turn[t].conversationIdToUse = 2
        /\ turn[t].providerCalls # <<>>
        /\ turn[t].providerCalls[1].messages[1] = [role |-> "system", content |-> "P2"]

AssistantMessagesOf(msgs) == {i \in 1..Len(msgs) : msgs[i].role = "assistant"}

\* C30: a turn appends at most one assistant message, also when a storage call
\* fails after the assistant tool-call message was stored and the handler falls
\* back to a direct completion.
C30_AtMostOneAssistantMessage ==
    \A t \in DOMAIN turn :
        Started(t) => Cardinality(AssistantMessagesOf(turn[t].appended)) <= 1

\* ------------------------------------------ two turns on one conversation

\* two POST /api/chat requests in flight, both on conversation 1
ConcurrentTurnIds == {1, 2}

ConcurrentRequests ==
    [message : {"hello"}, conversationId : {1}, systemPromptId : {0},
     useTool : {"absent", "true"}]

\* the provider answers with a text, with one get_weather call, or fails
ConcurrentFirstPassOutcomes ==
    { [ok |-> FALSE],
      [ok |-> TRUE, content |-> "A1", tool_calls |-> <<>>],
      [ok |-> TRUE, content |-> "A1", tool_calls |-> <<ToolCall("get_weather", "{}")>>] }

ConcurrentCompletionOutcomes == { [ok |-> FALSE], [ok |-> TRUE, content |-> "D"] }

InitConcurrent ==
    /\ systemPrompts = InitialPrompts
    /\ nextPromptId = 3
    /\ conversations = InitialConversations
    /\ nextConversationId = 3
    /\ mcpTools = InitialTools
    /\ messages = {}
    /\ nextMessageId = 1
    /\ mcp = initialize(MCPNew, TRUE)
    /\ turn = [t \in ConcurrentTurnIds |-> [pc |-> "idle"]]
    /\ lastOp = NoOp
    /\ ops = <<>>

\* every await of the handler is a point where the other request may run
NextConcurrent ==
    \/ \E t \in ConcurrentTurnIds, req \in ConcurrentRequests : PostChat(t, req)
    \/ \E t \in ConcurrentTurnIds, dbOk \in BOOLEAN : StoreUserMessage(t, dbOk)
    \/ \E t \in ConcurrentTurnIds : ReadHistory(t, TRUE)
    \/ \E t \in ConcurrentTurnIds : ResolveSystemPrompt(t, TRUE)
    \/ \E t \in ConcurrentTurnIds : ResolveTools(t, TRUE)
    \/ \E t \in ConcurrentTurnIds : EnsureMcpInitialized(t, TRUE)
    \/ \E t \in ConcurrentTurnIds, outcome \in ConcurrentFirstPassOutcomes :
          FirstPass(t, outcome, TRUE)
    \/ \E t \in ConcurrentTurnIds :
          ExecuteToolCall(t, CHOOSE d \in WeatherDraws : TRUE, TRUE)
    \/ \E t \in ConcurrentTurnIds : SecondPass(t, [ok |-> TRUE, content |-> "A2"])
    \/ \E t \in ConcurrentTurnIds : FindToolId(t, TRUE)
    \/ \E t \in ConcurrentTurnIds, dbOk \in BOOLEAN : StoreAssistantToolCall(t, dbOk)
    \/ \E t \in ConcurrentTurnIds, dbOk \in BOOLEAN : StoreToolResult(t, dbOk)
    \/ \E t \in ConcurrentTurnIds, outcome \in ConcurrentCompletionOutcomes :
          FallbackCompletion(t, outcome)
    \/ \E t \in ConcurrentTurnIds, outcome \in ConcurrentCompletionOutcomes :
          DirectCompletion(t, outcome)
    \/ \E t \in ConcurrentTurnIds, dbOk \in BOOLEAN : StoreAssistant(t, dbOk)

SpecConcurrent == InitConcurrent /\ [][NextConcurrent]_vars

TurnOrders ==
    { <<>>, <<"user">>, <<"user", "assistant">>, <<"user", "assistant", "tool">> }

\* the messages of the turn are in the log, once each, in the order appended
AppendedOnceInOrder(t) ==
    LET own == turn[t].appended
    IN  /\ \A i \in 1..Len(own) :
              /\ own[i] \in messages
              /\ Cardinality({m \in messages : m.id = own[i].id}) = 1
        /\ \A i, j \in 1..Len(own) : i < j => own[i].id < own[j].id

\* C25: with two turns in flight on conversation 1, in every interleaving each
\* turn's own messages are user, assistant, then tool if any; the log holds every
\* appended message exactly once, and nothing else.
C25_ConcurrentTurnsKeepTheirOrder ==
    /\ \A t \in DOMAIN turn :
          Started(t) => Roles(turn[t].appended) \in TurnOrders /\ AppendedOnceInOrder(t)
    /\ \A t, u \in DOMAIN turn :
          (t # u /\ Started(t) /\ Started(u)) =>
              \A i \in 1..Len(turn[t].appended), j \in 1..Len(turn[u].appended) :
                  turn[t].appended[i].id # turn[u].appended[j].id

\* the same, for turns that met no storage failure
C25_OrderWhenStorageSucceeds ==
    /\ \A t \in DOMAIN turn :
          (Started(t) /\ ~turn[t].storageFailed) =>
              Roles(turn[t].appended) \in TurnOrders /\ AppendedOnceInOrder(t)
    /\ \A t, u \in DOMAIN turn :
          (t # u /\ Started(t) /\ Started(u)) =>
              \A i \in 1..Len(turn[t].appended), j \in 1..Len(turn[u].appended) :
                  turn[t].appended[i].id # turn[u].appended[j].id

\* ----------------------------------------------- POST /api/mcp-tools/call

\* the tool rows of this handler: tool 1 is enabled and matches no tool of the
\* service, tool 2 is disabled, tool 3 is enabled and carries a service tool's name
CallTools ==
    InitialTools \cup
    { [id |-> 3, name |-> "get_weather", description |-> "weather now", userId |-> 1,
       isEnabled |-> TRUE] }

\* request bodies; conversationId 0 is an absent one, 9 names no conversation
ToolCallRequests ==
    [toolId : {1, 2, 3, 9}, conversationId : {0, 1, 9}, parameters : {"{}", "{city:Beijing}"}]

CallProviderOutcomes ==
    { [ok |-> FALSE], [ok |-> TRUE, content |-> "A1", tool_calls |-> <<>>] }
    \cup { [ok |-> TRUE, content |-> "A1", tool_calls |-> <<first>>] :
             first \in FirstToolCalls }

\* mcp-client.ts 238-358: what processWithTools returns for one requested call
processWithTools(outcome, draw, fetched, second) ==
    IF ~outcome.ok THEN PwtCatch("provider request failed")
    ELSE IF outcome.tool_calls = <<>>
    THEN [content |-> TextOr(outcome.content, "NO_CONTENT"), toolCalls |-> <<>>]
    ELSE LET toolCall == outcome.tool_calls[1]
             parsed   == JSONparse(toolCall.arguments)
             ran      == executeTool(toolCall.name, parsed.value, draw, fetched)
         IN  IF parsed.threw THEN PwtCatch(parsed.error)
             ELSE IF ran.threw THEN PwtCatch(ran.error)
             ELSE IF ~second.ok THEN PwtCatch("provider request failed")
             ELSE [content |-> TextOr(second.content, "NO_CONTENT"),
                   toolCalls |-> << [name |-> toolCall.name, arguments |-> parsed.value,
                                     result |-> ran.value] >>]

NewCall(req) ==
    [pc |-> "idle", req |-> req, tool |-> Null, toolResult |-> Null, response |-> Null,
     \* what the request did, for the properties
     before |-> messages, appended |-> <<>>, storageFailed |-> FALSE]

\* routes.ts 376-382
SimulatedResult(tool, parameters) ==
    [success |-> TRUE,
     data |-> [message |-> "Tool " \o tool.name \o " executed with " \o parameters,
               timestamp |-> "now"]]

\* routes.ts 400-403
CallFailedResult(error) == [success |-> FALSE, error |-> error]

\* a stored message that leaves the call out
ToolCallMessageWithoutCall(id, req, content, toolResult) ==
    [id |-> id, role |-> "tool", content |-> content, userId |-> MOCK_USER_ID,
     conversationId |-> req.conversationId, toolCall |-> Null, toolResult |-> toolResult]

\* routes.ts 386-393 and 406-413
ToolCallMessage(id, req, content, toolResult) ==
    [id |-> id, role |-> "tool", content |-> content, userId |-> MOCK_USER_ID,
     conversationId |-> req.conversationId,
     toolCall |-> [toolId |-> req.toolId, parameters |-> req.parameters],
     toolResult |-> toolResult]

\* routes.ts 343: the body is parsed against mcpToolCallSchema
PostToolCall(t, req) ==
    /\ turn[t].pc = "idle"
    /\ turn' = [turn EXCEPT ![t] =
          IF req.conversationId = 0 THEN handleError(NewCall(req), "ZodError")
          ELSE [NewCall(req) EXCEPT !.pc = "getTool"]]
    /\ UNCHANGED <<others, conversations, nextConversationId, messages, nextMessageId>>

\* routes.ts 347-355
GetTool(t, dbOk) ==
    LET tr    == turn[t]
        found == getMcpTool(mcpTools, tr.req.toolId)
    IN  /\ tr.pc = "getTool"
        /\ turn' = [turn EXCEPT ![t] =
              IF ~dbOk THEN StorageThrew(tr)
              ELSE IF found = {}
              THEN [tr EXCEPT !.pc = "done",
                              !.response = [status |-> 404, message |-> "Tool not found"]]
              ELSE IF ~(CHOOSE tool \in found : TRUE).isEnabled
              THEN [tr EXCEPT !.pc = "done",
                              !.response = [status |-> 400, message |-> "Tool is disabled"]]
              ELSE [tr EXCEPT !.pc = "initialize", !.tool = CHOOSE tool \in found : TRUE]]
        /\ UNCHANGED <<others, conversations, nextConversationId, messages, nextMessageId>>

\* routes.ts 359-361
InitializeForCall(t, spawned) ==
    /\ turn[t].pc = "initialize"
    /\ mcp' = IF getAvailableTools(mcp) = <<>> THEN initialize(mcp, spawned) ELSE mcp
    /\ turn' = [turn EXCEPT ![t].pc = "invoke"]
    /\ UNCHANGED <<systemPrompts, nextPromptId, storageVars, lastOp, ops>>

\* routes.ts 364-383: the tool result, from the service or simulated
InvokeTool(t, outcome, draw, fetched, second, spawned) ==
    LET tr      == turn[t]
        tools   == getAvailableTools(mcp)
        matched == \E i \in 1..Len(tools) : Includes(tools[i], tr.tool.name)
        result  == processWithTools(outcome, draw, fetched, second)
    IN  /\ tr.pc = "invoke"
        /\ mcp' = IF matched /\ ~mcp.isConnected THEN initialize(mcp, spawned) ELSE mcp
        /\ turn' = [turn EXCEPT ![t] =
              [tr EXCEPT !.pc = "store",
                         !.toolResult =
                             IF matched
                             THEN IF Len(result.toolCalls) > 0
                                  THEN result.toolCalls[1].result ELSE Null
                             ELSE SimulatedResult(tr.tool, tr.req.parameters)]]
        /\ UNCHANGED <<systemPrompts, nextPromptId, storageVars, lastOp, ops>>

\* routes.ts 386-395, and the catch of 396-403 when the insert throws
StoreToolCall(t, dbOk) ==
    LET tr      == turn[t]
        message == ToolCallMessage(nextMessageId, tr.req, "Tool " \o tr.tool.name \o " was called",
                                   tr.toolResult)
    IN  /\ tr.pc = "store"
        /\ IF dbOk /\ CanInsertMessage(conversations, tr.req.conversationId)
           THEN /\ messages' = messages \cup {message}
                /\ nextMessageId' = nextMessageId + 1
                /\ turn' = [turn EXCEPT ![t] =
                      [tr EXCEPT !.pc = "done", !.appended = Append(@, message),
                                 !.response = [status |-> 200, result |-> tr.toolResult]]]
           ELSE /\ turn' = [turn EXCEPT ![t] =
                      [tr EXCEPT !.pc = "storeFailure", !.storageFailed = TRUE,
                                 !.toolResult = CallFailedResult("insert failed")]]
                /\ UNCHANGED <<messages, nextMessageId>>
        /\ UNCHANGED <<others, conversations, nextConversationId>>

\* routes.ts 406-415, and the outer catch of 417-419 when this insert throws too
StoreToolCallFailure(t, dbOk) ==
    LET tr      == turn[t]
        message == ToolCallMessage(nextMessageId, tr.req, "Tool " \o tr.tool.name \o " call failed",
                                   tr.toolResult)
    IN  /\ tr.pc = "storeFailure"
        /\ IF dbOk /\ CanInsertMessage(conversations, tr.req.conversationId)
           THEN /\ messages' = messages \cup {message}
                /\ nextMessageId' = nextMessageId + 1
                /\ turn' = [turn EXCEPT ![t] =
                      [tr EXCEPT !.pc = "done", !.appended = Append(@, message),
                                 !.response = [status |-> 200, result |-> tr.toolResult]]]
           ELSE /\ turn' = [turn EXCEPT ![t] = StorageThrew(tr)]
                /\ UNCHANGED <<messages, nextMessageId>>
        /\ UNCHANGED <<others, conversations, nextConversationId>>

InitToolCall ==
    /\ systemPrompts = InitialPrompts
    /\ nextPromptId = 3
    /\ conversations = InitialConversations
    /\ nextConversationId = 3
    /\ mcpTools = CallTools
    /\ messages \in { {}, EarlierMessages }
    /\ nextMessageId = Cardinality(messages) + 1
    /\ mcp \in ServiceStates
    /\ turn = [t \in TurnIds |-> [pc |-> "idle"]]
    /\ lastOp = NoOp
    /\ ops = <<>>

NextToolCall ==
    \/ \E t \in TurnIds, req \in ToolCallRequests : PostToolCall(t, req)
    \/ \E t \in TurnIds, dbOk \in BOOLEAN : GetTool(t, dbOk)
    \/ \E t \in TurnIds, spawned \in BOOLEAN : InitializeForCall(t, spawned)
    \/ \E t \in TurnIds, outcome \in CallProviderOutcomes, draw \in WeatherDraws,
          fetched \in BOOLEAN, second \in SecondPassOutcomes, spawned \in BOOLEAN :
          InvokeTool(t, outcome, draw, fetched, second, spawned)
    \/ \E t \in TurnIds, dbOk \in BOOLEAN : StoreToolCall(t, dbOk)
    \/ \E t \in TurnIds, dbOk \in BOOLEAN : StoreToolCallFailure(t, dbOk)

SpecToolCall == InitToolCall /\ [][NextToolCall]_vars

\* the request names a tool that exists and is enabled
CallsEnabledTool(t) ==
    \E tool \in getMcpTool(mcpTools, turn[t].req.toolId) : tool.isEnabled

\* exactly one message was persisted: a tool message carrying the request's
\* toolId and parameters, whose toolResult is the one sent back
OneToolMessage(t) ==
    /\ Len(turn[t].appended) = 1
    /\ messages = turn[t].before \cup {turn[t].appended[1]}
    /\ turn[t].appended[1] \notin turn[t].before
    /\ turn[t].appended[1].role = "tool"
    /\ turn[t].appended[1].conversationId = turn[t].req.conversationId
    /\ turn[t].appended[1].toolCall =
          [toolId |-> turn[t].req.toolId, parameters |-> turn[t].req.parameters]
    /\ turn[t].response = [status |-> 200, result |-> turn[t].appended[1].toolResult]

NothingPersisted(t) == turn[t].appended = <<>> /\ messages = turn[t].before

\* C29 as stated: 404 and 400 persist nothing, and every call of an existing
\* enabled tool persists exactly one tool message and answers with its toolResult.
C29_ToolCallPersistsOneMessage ==
    \A t \in DOMAIN turn :
        Done(t) =>
            /\ turn[t].response.status \in {400, 404} => NothingPersisted(t)
            /\ (turn[t].req.conversationId # 0 /\ CallsEnabledTool(t)) => OneToolMessage(t)

\* C29: 404 and 400 persist nothing. A call of an existing enabled tool on an
\* existing conversation persists exactly one tool message with the request's
\* toolId and parameters and answers with its toolResult, or, when storage
\* failed, answers 500 with nothing persisted. A call on a conversation that
\* does not exist is answered 500 with nothing persisted.
C29_ToolCallPersistsOneMessageOrFails ==
    \A t \in DOMAIN turn :
        Done(t) =>
            /\ turn[t].response.status \in {400, 404} => NothingPersisted(t)
            /\ (turn[t].req.conversationId # 0 /\ CallsEnabledTool(t)) =>
                  IF CanInsertMessage(conversations, turn[t].req.conversationId)
                  THEN \/ OneToolMessage(t)
                       \/ /\ turn[t].storageFailed
                          /\ turn[t].response.status = 500
                          /\ NothingPersisted(t)
                  ELSE turn[t].response.status = 500 /\ NothingPersisted(t)
            /\ (turn[t].storageFailed /\ turn[t].response.status = 200) =>
                  turn[t].response.result = CallFailedResult("insert failed")

\* tool 3 was run by the service and its result stored and returned
C29_Witness ==
    \E t \in DOMAIN turn :
        /\ Done(t) /\ turn[t].req.toolId = 3 /\ ~turn[t].storageFailed
        /\ OneToolMessage(t)
        /\ turn[t].response.result \notin {Null}
        /\ turn[t].before = EarlierMessages

====
